---- MODULE Spec2Model ----
(***************************************************************************)
(* OPD-Flow-Engine: the token allocation core (TokenService.bookToken and  *)
(* TokenService.cancelToken) over the Slot and Token collections, run as   *)
(* concurrent calls, each inside one MongoDB multi-document transaction.   *)
(*                                                                         *)
(* A call is a process; every `await` of the handler is one step.  The     *)
(* committed collections are `slots` and `tokens`; a call's uncommitted    *)
(* writes live in its own record until commitTransaction applies them.     *)
(* The storage layer is the one the handlers are written against: a        *)
(* transaction reads from the snapshot taken at its first operation, and a *)
(* write to a document that another transaction has written since that     *)
(* snapshot (committed or not) is rejected with a write conflict.          *)
(***************************************************************************)
EXTENDS Integers, Sequences, FiniteSets, TLC

(***************************************************************************)
(* Bounds of the model.                                                    *)
(***************************************************************************)
NCalls == 2          \* calls that may be in flight together
SlotCapacity == 2    \* maxCapacity of every seeded slot (10 in the seed)
NHours == 2          \* one-hour slots per doctor (8 in the seed)

StartHour == 9

Calls == 1 .. NCalls
Hours == StartHour .. (StartHour + NHours - 1)

(***************************************************************************)
(* Identifiers.  A doctor id is a string: "d1" and "d2" are doctors of the *)
(* collection, "dX" is a well-formed id of no doctor, "zz" is not a valid  *)
(* ObjectId and "" is a missing field.  Token ids are positive integers;   *)
(* 0 is a missing id and -1 a malformed one.  A slotTime of 0 is a missing  *)
(* field.                                                                  *)
(***************************************************************************)
Doctors == {"d1", "d2"}
DoctorIdInputs == Doctors \cup {"dX", "zz", ""}
SlotIds == Doctors \X Hours
TokenIds == 1 .. (SlotCapacity + NCalls + 1)
NoSlot == <<"", 0>>
GhostSlot == <<"d1", 0>>

TokenType == {"ONLINE", "WALK_IN", "EMERGENCY", "FOLLOW_UP"}
TokenStatus == {"BOOKED", "CANCELLED", "COMPLETED", "NO_SHOW"}

IsValidObjectId(id) == id \notin {"zz", ""}
IsValidTokenId(id) == id > 0

(***************************************************************************)
(* patientName is a sequence of characters; trim() strips blanks at both   *)
(* ends.                                                                   *)
(***************************************************************************)
PatientNames == {<<>>, <<" ">>, <<"A">>, <<"A", "l">>, <<" ", "A", " ">>}

RECURSIVE TrimLeft(_)
TrimLeft(s) == IF s # <<>> /\ Head(s) = " " THEN TrimLeft(Tail(s)) ELSE s

RECURSIVE TrimRight(_)
TrimRight(s) ==
  IF s # <<>> /\ s[Len(s)] = " " THEN TrimRight(SubSeq(s, 1, Len(s) - 1)) ELSE s

Trim(s) == TrimRight(TrimLeft(s))

MinNameLength == 2
MaxNameLength == 100

\* TokenSchema.patientName: required, trim, minlength 2, maxlength 100
ValidPatientName(name) ==
  /\ Trim(name) # <<>>
  /\ Len(Trim(name)) >= MinNameLength
  /\ Len(Trim(name)) <= MaxNameLength

(***************************************************************************)
(* Errors.  An AppError carries a status code; any other error (a mongoose *)
(* ValidationError, a driver or server error) has code 0.                  *)
(***************************************************************************)
AppError(message, statusCode) == [msg |-> message, code |-> statusCode]
RawError(name) == [msg |-> name, code |-> 0]
NoError == [msg |-> "", code |-> -1]
IsAppError(e) == e.code > 0

(***************************************************************************)
(* The Slot schema.                                                        *)
(***************************************************************************)
\* SlotSchema.currentCount: min 0, and the validator value <= this.maxCapacity
ValidCurrentCountBug(value, maxCapacity) == value >= 0

ValidCurrentCount(value, maxCapacity) == value >= 0 /\ value <= maxCapacity

\* the virtuals isAvailable and remainingSlots
VirtualIsAvailable(slot) == slot.currentCount < slot.maxCapacity
VirtualRemainingSlots(slot) == slot.maxCapacity - slot.currentCount

Max(a, b) == IF a >= b THEN a ELSE b

\* scripts/seed.ts generateSlotsForToday, for every doctor
SeededSlots ==
  [s \in SlotIds |->
     [doctorId |-> s[1], startTime |-> s[2], endTime |-> s[2] + 1,
      maxCapacity |-> SlotCapacity, currentCount |-> 0]]

NoToken == [slotId |-> NoSlot, type |-> "", status |-> "NONE", patientName |-> <<>>]

VARIABLES
  slots,    \* the committed Slot collection: SlotIds -> slot document
  tokens,   \* the committed Token collection: TokenIds -> token document (status "NONE": no such document)
  db0,      \* the collections as they were before the first call
  pc,       \* where each call stands
  req,      \* the request each call was made with
  tx,       \* each call's session: what it read, its uncommitted writes, the error it caught
  out       \* what each finished call returned or threw, and what it did to its slot

vars == <<slots, tokens, db0, pc, req, tx, out>>

NoReq == [op |-> "none", doctorId |-> "", slotTime |-> 0, patientName |-> <<>>,
          type |-> "", tokenId |-> 0]
NoSnap == [s \in SlotIds |-> 0]
NoTx == [snap |-> NoSnap, slot |-> NoSlot, count |-> 0, full |-> FALSE,
         tok |-> 0, status |-> "NONE", wrote |-> {}, stale |-> {},
         err |-> NoError, commitTried |-> FALSE]
NoOut == [code |-> -1, msg |-> "", tok |-> 0, slot |-> NoSlot, status |-> "NONE",
          currentCount |-> 0, remainingSlots |-> 0,
          pre |-> 0, post |-> 0, read |-> 0, was |-> "NONE", cause |-> "",
          view |-> <<>>, totalSlots |-> 0, availableSlots |-> 0, session |-> <<>>]

SlotDoc(s) == <<"slot", s>>
TokenDoc(t) == <<"token", t>>

Active(c) == pc[c] \notin {"idle", "done"}
\* the calls whose transaction has taken its snapshot and is still open
InTxn(c) == pc[c] \in {"findSlot", "saveToken", "saveSlot", "commit", "catch",
                       "cancelSaveToken", "cancelFindSlot", "cancelSaveSlot",
                       "cancelCommit", "cancelCatch"}

BookedCount(tk, s) == Cardinality({t \in TokenIds : tk[t].slotId = s /\ tk[t].status = "BOOKED"})

(***************************************************************************)
(* The storage layer's conflict rule for a write inside a transaction.     *)
(***************************************************************************)
WriteConflictBug(c, doc) == FALSE

\* a conflict with any other transaction that has written anything
WriteConflictAny(c, doc) ==
  \/ tx[c].stale # {}
  \/ \E c2 \in Calls \ {c} : tx[c2].wrote # {}

WriteConflict(c, doc) ==
  \/ doc \in tx[c].stale
  \/ \E c2 \in Calls \ {c} : doc \in tx[c2].wrote

\* a commit makes its written documents stale for every other open snapshot
MarkStale(c, t) ==
  [c2 \in Calls |->
     IF c2 = c THEN t[c2]
     ELSE IF InTxn(c2) THEN [t[c2] EXCEPT !.stale = @ \cup t[c].wrote]
     ELSE t[c2]]

(***************************************************************************)
(* Finishing a call: what it returned or threw is recorded with the        *)
(* committed count of its slot just before and just after its last step.   *)
(***************************************************************************)
CountOf(sl, s) == IF s \in SlotIds THEN sl[s].currentCount ELSE 0

\* what the session of call c has been asked by the time the call ends, in
\* order: startTransaction, then commitTransaction when the try block
\* came to it, then abortTransaction in the catch block (refused by the
\* session once commitTransaction has been called on it), then endSession
\* in the finally block
SessionEvents(c) ==
  IF pc[c] \in {"commit", "cancelCommit"}
    THEN <<"startTransaction", "commitTransaction", "endSession">>
  ELSE IF pc[c] \in {"catch", "cancelCatch"}
    THEN IF tx[c].commitTried
           THEN <<"startTransaction", "commitTransaction rejected",
                  "abortTransaction rejected", "endSession">>
           ELSE <<"startTransaction", "abortTransaction", "endSession">>
  ELSE <<>>

Outcome(c, o, sl1) ==
  [o EXCEPT !.slot = tx[c].slot,
            !.pre = CountOf(slots, tx[c].slot), !.post = CountOf(sl1, tx[c].slot),
            !.read = tx[c].count, !.cause = tx[c].err.msg,
            !.session = SessionEvents(c)]

Finish(c, o, sl1) ==
  /\ out' = [out EXCEPT ![c] = Outcome(c, o, sl1)]
  /\ pc' = [pc EXCEPT ![c] = "done"]

Failure(e) == [NoOut EXCEPT !.code = e.code, !.msg = e.msg]

Done(c) == pc[c] = "done"
Succeeded(c) == Done(c) /\ out[c].code \in {200, 201}

\* a call passes its input checks and starts its session and transaction
Begin(c, r, next) ==
  /\ req' = [req EXCEPT ![c] = r]
  /\ pc' = [pc EXCEPT ![c] = next]
  /\ tx' = [tx EXCEPT ![c] = NoTx]

\* a call whose input is rejected before any session is started
Reject(c, r, e) ==
  /\ req' = [req EXCEPT ![c] = r]
  /\ out' = [out EXCEPT ![c] = Failure(e)]
  /\ pc' = [pc EXCEPT ![c] = "done"]
  /\ UNCHANGED <<slots, tokens, db0, tx>>

Throw(c, e, next) ==
  /\ tx' = [tx EXCEPT ![c].err = e]
  /\ pc' = [pc EXCEPT ![c] = next]

\* calls are anonymous: call c+1 is made only once call c has been made
MayStart(c) == pc[c] = "idle" /\ \A c2 \in Calls : c2 < c => pc[c2] # "idle"

(***************************************************************************)
(* bookToken                                                               *)
(***************************************************************************)
BookRequests ==
  [op : {"book"}, doctorId : DoctorIdInputs, slotTime : Hours \cup {StartHour + NHours},
   patientName : PatientNames, type : TokenType \cup {"", "BOGUS"}, tokenId : {0}]

\* lines 54-65: the checks before the session is started
BookInputErrorBug(r) == NoError

BookInputError(r) ==
  IF r.doctorId = "" \/ r.slotTime = 0 \/ r.patientName = <<>> \/ r.type = ""
    THEN AppError("Missing required fields", 400)
  ELSE IF ~IsValidObjectId(r.doctorId) THEN AppError("Invalid doctor ID", 400)
  ELSE IF r.type \notin TokenType THEN AppError("Invalid token type", 400)
  ELSE NoError

\* lines 51-69: validation, then startSession and startTransaction
BookStart(c, r) ==
  /\ MayStart(c)
  /\ r.op = "book"
  /\ IF BookInputError(r) # NoError
       THEN Reject(c, r, BookInputError(r))
       ELSE /\ Begin(c, r, "findDoctor")
            /\ UNCHANGED <<slots, tokens, db0, out>>

\* lines 75-79: Doctor.findById, the transaction's first operation
BookFindDoctor(c) ==
  /\ pc[c] = "findDoctor"
  /\ IF req[c].doctorId \notin Doctors
       THEN Throw(c, AppError("Doctor not found", 404), "catch")
       ELSE /\ tx' = [tx EXCEPT ![c].snap = [s \in SlotIds |-> slots[s].currentCount],
                                ![c].stale = {}]
            /\ pc' = [pc EXCEPT ![c] = "findSlot"]
  /\ UNCHANGED <<slots, tokens, db0, req, out>>

\* lines 83-87: the slots the findOne filter matches
ContainingSlotsBug(doctorId, requestedTime) ==
  {s \in SlotIds : /\ slots[s].doctorId = doctorId
                   /\ slots[s].startTime <= requestedTime
                   /\ slots[s].endTime >= requestedTime}

ContainingSlots(doctorId, requestedTime) ==
  {s \in SlotIds : /\ slots[s].doctorId = doctorId
                   /\ slots[s].startTime <= requestedTime
                   /\ slots[s].endTime > requestedTime}

\* line 102
IsSlotFullBug(currentCount, maxCapacity) == currentCount > maxCapacity

IsSlotFullEarly(currentCount, maxCapacity) == currentCount + 1 >= maxCapacity

IsSlotFull(currentCount, maxCapacity) == currentCount >= maxCapacity

\* line 103
IsEmergencyBug(type) == type \in {"EMERGENCY", "FOLLOW_UP"}

IsEmergency(type) == type = "EMERGENCY"

\* lines 81-116: Slot.findOne, then the capacity check
BookFindSlot(c) ==
  /\ pc[c] = "findSlot"
  /\ IF ContainingSlots(req[c].doctorId, req[c].slotTime) = {}
       THEN Throw(c, AppError("No slot found", 404), "catch")
       ELSE \E s \in ContainingSlots(req[c].doctorId, req[c].slotTime) :
              LET count == tx[c].snap[s]
                  full == IsSlotFull(count, slots[s].maxCapacity)
              IN  IF full /\ ~IsEmergency(req[c].type)
                    THEN /\ tx' = [tx EXCEPT ![c].slot = s, ![c].count = count,
                                             ![c].full = full, ![c].snap = NoSnap,
                                             ![c].err = AppError("Slot is full", 409)]
                         /\ pc' = [pc EXCEPT ![c] = "catch"]
                    ELSE /\ tx' = [tx EXCEPT ![c].slot = s, ![c].count = count,
                                             ![c].full = full, ![c].snap = NoSnap]
                         /\ pc' = [pc EXCEPT ![c] = "saveToken"]
  /\ UNCHANGED <<slots, tokens, db0, req, out>>

\* the id of a new Token document: ids are drawn in increasing order and
\* never again, so the first one that no document holds and no call has
\* drawn.  new Token() sets _id and requestTime together (line 119, the
\* schema's default Date.now), so the order of the ids is the order of the
\* request times.
HeldTokenId(t) ==
  \/ tokens[t].status # "NONE"
  \/ \E c \in Calls : req[c].op = "book" /\ Active(c) /\ tx[c].tok = t
  \/ \E c \in Calls : req[c].op = "book" /\ pc[c] = "done" /\ out[c].tok = t

RequestTime(t) == t

FreshTokenId ==
  CHOOSE t \in TokenIds : ~HeldTokenId(t) /\ \A u \in TokenIds : u < t => HeldTokenId(u)

\* token.save() without the session: the insert is visible at once
BookSaveTokenNoSession(c) ==
  /\ pc[c] = "saveToken"
  /\ IF ~ValidPatientName(req[c].patientName)
       THEN Throw(c, RawError("ValidationError"), "catch") /\ UNCHANGED tokens
       ELSE /\ tx' = [tx EXCEPT ![c].tok = FreshTokenId, ![c].status = "BOOKED"]
            /\ tokens' = [tokens EXCEPT ![FreshTokenId] =
                            [slotId |-> tx[c].slot, type |-> req[c].type,
                             status |-> "BOOKED",
                             patientName |-> Trim(req[c].patientName)]]
            /\ pc' = [pc EXCEPT ![c] = "saveSlot"]
  /\ UNCHANGED <<slots, db0, req, out>>

\* lines 118-127: new Token, token.save({ session })
BookSaveToken(c) ==
  /\ pc[c] = "saveToken"
  /\ IF ~ValidPatientName(req[c].patientName)
       THEN Throw(c, RawError("ValidationError"), "catch")
       ELSE /\ tx' = [tx EXCEPT ![c].tok = FreshTokenId,
                                ![c].status = "BOOKED",
                                ![c].wrote = @ \cup {TokenDoc(FreshTokenId)}]
            /\ pc' = [pc EXCEPT ![c] = "saveSlot"]
  /\ UNCHANGED <<slots, tokens, db0, req, out>>

\* line 130
IncrementedBug(currentCount) == currentCount

Incremented(currentCount) == currentCount + 1

\* lines 129-131: slot.currentCount += 1, slot.save({ session })
BookSaveSlot(c) ==
  /\ pc[c] = "saveSlot"
  /\ LET s == tx[c].slot
         count == Incremented(tx[c].count)
     IN  IF ~ValidCurrentCount(count, slots[s].maxCapacity)
           THEN /\ tx' = [tx EXCEPT ![c].err = RawError("ValidationError")]
                /\ pc' = [pc EXCEPT ![c] = "catch"]
         ELSE IF WriteConflict(c, SlotDoc(s))
           THEN \* the server aborts the transaction and drops its writes
                /\ tx' = [tx EXCEPT ![c].wrote = {},
                                    ![c].err = RawError("WriteConflict")]
                /\ pc' = [pc EXCEPT ![c] = "catch"]
         ELSE /\ tx' = [tx EXCEPT ![c].wrote = @ \cup {SlotDoc(s)}]
              /\ pc' = [pc EXCEPT ![c] = "commit"]
  /\ UNCHANGED <<slots, tokens, db0, req, out>>

\* lines 140-161: the response of a successful booking
BookResponseBug(c) ==
  [NoOut EXCEPT
     !.code = 201, !.msg = "Token booked successfully",
     !.tok = tx[c].tok, !.status = tx[c].status,
     !.currentCount = tx[c].count,
     !.remainingSlots = Max(0, slots[tx[c].slot].maxCapacity - tx[c].count)]

BookResponse(c) ==
  [NoOut EXCEPT
     !.code = 201,
     !.msg = IF IsEmergency(req[c].type) /\ tx[c].full
               THEN "Emergency token booked (exceeding normal capacity)"
               ELSE "Token booked successfully",
     !.tok = tx[c].tok, !.status = tx[c].status,
     !.currentCount = Incremented(tx[c].count),
     !.remainingSlots = Max(0, slots[tx[c].slot].maxCapacity - Incremented(tx[c].count))]

\* lines 133-161: commitTransaction applies the token and the slot together
BookCommit(c) ==
  /\ pc[c] = "commit"
  /\ LET s == tx[c].slot
         sl1 == [slots EXCEPT ![s].currentCount = Incremented(tx[c].count)]
     IN  /\ slots' = sl1
         /\ tokens' = [tokens EXCEPT ![tx[c].tok] =
                         [slotId |-> s, type |-> req[c].type, status |-> "BOOKED",
                          patientName |-> Trim(req[c].patientName)]]
         /\ tx' = [MarkStale(c, tx) EXCEPT ![c] = NoTx]
         /\ Finish(c, BookResponse(c), sl1)
  /\ UNCHANGED <<db0, req>>

\* lines 162-175: abortTransaction, then the AppError is rethrown and any
\* other error becomes the generic 500.  After a commitTransaction that
\* was rejected the session no longer accepts abortTransaction: the
\* driver's own error leaves the handler instead.
RethrownBug(e, generic) == AppError(generic, 500)

Rethrown(e, generic) == IF IsAppError(e) THEN e ELSE AppError(generic, 500)

Caught(c, generic) ==
  IF tx[c].commitTried THEN Failure(RawError("MongoTransactionError"))
  ELSE Failure(Rethrown(tx[c].err, generic))

BookCatch(c) ==
  /\ pc[c] = "catch"
  /\ tx' = [tx EXCEPT ![c] = NoTx]
  /\ Finish(c, [Caught(c, "Failed to book token") EXCEPT !.tok = tx[c].tok], slots)
  /\ UNCHANGED <<slots, tokens, db0, req>>

(***************************************************************************)
(* cancelToken                                                             *)
(***************************************************************************)
CancelRequests ==
  [op : {"cancel"}, doctorId : {""}, slotTime : {0}, patientName : {<<>>},
   type : {""}, tokenId : TokenIds \cup {0, -1}]

\* lines 183-190: the checks before the session is started
CancelInputError(r) ==
  IF r.tokenId = 0 THEN AppError("Token ID is required", 400)
  ELSE IF ~IsValidTokenId(r.tokenId) THEN AppError("Invalid token ID", 400)
  ELSE NoError

\* lines 182-194: validation, then startSession and startTransaction
CancelStart(c, r) ==
  /\ MayStart(c)
  /\ r.op = "cancel"
  /\ IF CancelInputError(r) # NoError
       THEN Reject(c, r, CancelInputError(r))
       ELSE /\ Begin(c, r, "cancelFindToken")
            /\ UNCHANGED <<slots, tokens, db0, out>>

\* lines 206-214: the statuses cancelToken refuses
CancelStatusErrorBug(status) == NoError

CancelStatusError(status) ==
  IF status = "CANCELLED" THEN AppError("Token is already cancelled", 400)
  ELSE IF status = "COMPLETED" THEN AppError("Cannot cancel a completed token", 400)
  ELSE NoError

\* line 221: the slot cancelToken looks up is the one the token references
AssociatedSlotBug(token) == <<"d1", StartHour>>

AssociatedSlot(token) == token.slotId

\* lines 196-214: Token.findById, the transaction's first operation, then
\* the status checks
CancelFindToken(c) ==
  /\ pc[c] = "cancelFindToken"
  /\ LET token == tokens[req[c].tokenId]
     IN  IF token.status = "NONE"
           THEN Throw(c, AppError("Token not found", 404), "cancelCatch")
         ELSE IF CancelStatusError(token.status) # NoError
           THEN /\ tx' = [tx EXCEPT ![c].tok = req[c].tokenId,
                                    ![c].status = token.status,
                                    ![c].slot = AssociatedSlot(token),
                                    ![c].err = CancelStatusError(token.status)]
                /\ pc' = [pc EXCEPT ![c] = "cancelCatch"]
         ELSE /\ tx' = [tx EXCEPT ![c].tok = req[c].tokenId,
                                  ![c].status = token.status,
                                  ![c].slot = AssociatedSlot(token),
                                  ![c].snap = [s \in SlotIds |-> slots[s].currentCount],
                                  ![c].stale = {}]
              /\ pc' = [pc EXCEPT ![c] = "cancelSaveToken"]
  /\ UNCHANGED <<slots, tokens, db0, req, out>>

\* token.save() without the session: the status is visible at once
CancelSaveTokenNoSession(c) ==
  /\ pc[c] = "cancelSaveToken"
  /\ tokens' = [tokens EXCEPT ![tx[c].tok].status = "CANCELLED"]
  /\ tx' = [tx EXCEPT ![c].wrote = @ \cup {TokenDoc(tx[c].tok)}]
  /\ pc' = [pc EXCEPT ![c] = "cancelFindSlot"]
  /\ UNCHANGED <<slots, db0, req, out>>

\* lines 216-218: token.status = CANCELLED, token.save({ session })
CancelSaveToken(c) ==
  /\ pc[c] = "cancelSaveToken"
  /\ IF WriteConflict(c, TokenDoc(tx[c].tok))
       THEN /\ tx' = [tx EXCEPT ![c].wrote = {}, ![c].err = RawError("WriteConflict")]
            /\ pc' = [pc EXCEPT ![c] = "cancelCatch"]
       ELSE /\ tx' = [tx EXCEPT ![c].wrote = @ \cup {TokenDoc(tx[c].tok)}]
            /\ pc' = [pc EXCEPT ![c] = "cancelFindSlot"]
  /\ UNCHANGED <<slots, tokens, db0, req, out>>

\* line 227: the count is lowered only when it is above zero
HasCountBug(currentCount) == TRUE

HasCount(currentCount) == currentCount > 0

\* lines 220-233: Slot.findById, then the decrement is skipped at zero
CancelFindSlot(c) ==
  /\ pc[c] = "cancelFindSlot"
  /\ IF tx[c].slot \notin SlotIds
       THEN Throw(c, AppError("Associated slot not found", 404), "cancelCatch")
       ELSE /\ tx' = [tx EXCEPT ![c].count = tx[c].snap[tx[c].slot], ![c].snap = NoSnap]
            /\ pc' = [pc EXCEPT ![c] =
                        IF HasCount(tx[c].snap[tx[c].slot])
                          THEN "cancelSaveSlot" ELSE "cancelCommit"]
  /\ UNCHANGED <<slots, tokens, db0, req, out>>

\* line 229
DecrementedBug(currentCount) == currentCount

Decremented(currentCount) == currentCount - 1

\* lines 228-230: slot.currentCount -= 1, slot.save({ session })
CancelSaveSlot(c) ==
  /\ pc[c] = "cancelSaveSlot"
  /\ LET s == tx[c].slot
     IN  IF ~ValidCurrentCount(Decremented(tx[c].count), slots[s].maxCapacity)
           THEN Throw(c, RawError("ValidationError"), "cancelCatch")
         ELSE IF WriteConflict(c, SlotDoc(s))
           THEN /\ tx' = [tx EXCEPT ![c].wrote = {}, ![c].err = RawError("WriteConflict")]
                /\ pc' = [pc EXCEPT ![c] = "cancelCatch"]
         ELSE /\ tx' = [tx EXCEPT ![c].wrote = @ \cup {SlotDoc(s)}]
              /\ pc' = [pc EXCEPT ![c] = "cancelCommit"]
  /\ UNCHANGED <<slots, tokens, db0, req, out>>

\* lines 242-249: the response of a successful cancellation
CancelResponse(c) ==
  [NoOut EXCEPT !.code = 200, !.msg = "Token cancelled successfully",
                !.tok = tx[c].tok, !.status = "CANCELLED", !.was = tx[c].status]

\* lines 235-249: commitTransaction applies the token's status and, when
\* it was saved, the slot's count together
CancelCommit(c) ==
  /\ pc[c] = "cancelCommit"
  /\ LET s == tx[c].slot
         sl1 == IF SlotDoc(s) \in tx[c].wrote
                  THEN [slots EXCEPT ![s].currentCount = Decremented(tx[c].count)]
                  ELSE slots
     IN  /\ slots' = sl1
         /\ tokens' = [tokens EXCEPT ![tx[c].tok].status = "CANCELLED"]
         /\ tx' = [MarkStale(c, tx) EXCEPT ![c] = NoTx]
         /\ Finish(c, CancelResponse(c), sl1)
  /\ UNCHANGED <<db0, req>>

\* lines 250-263
CancelCatch(c) ==
  /\ pc[c] = "cancelCatch"
  /\ tx' = [tx EXCEPT ![c] = NoTx]
  /\ Finish(c, [Caught(c, "Failed to cancel token") EXCEPT
                  !.tok = tx[c].tok, !.was = tx[c].status], slots)
  /\ UNCHANGED <<slots, tokens, db0, req>>

(***************************************************************************)
(* The storage layer fails: the awaited operation of a call rejects with   *)
(* an error of the driver (connectivity, a server-side abort).             *)
(***************************************************************************)
Awaiting == {"findDoctor", "findSlot", "saveToken", "saveSlot", "commit",
             "cancelFindToken", "cancelSaveToken", "cancelFindSlot",
             "cancelSaveSlot", "cancelCommit"}

StorageFault(c) ==
  /\ pc[c] \in Awaiting
  /\ tx' = [tx EXCEPT ![c].err = RawError("MongoError"), ![c].wrote = {},
                      ![c].commitTried = (pc[c] \in {"commit", "cancelCommit"})]
  /\ pc' = [pc EXCEPT ![c] = IF req[c].op = "book" THEN "catch" ELSE "cancelCatch"]
  /\ UNCHANGED <<slots, tokens, db0, req, out>>

(***************************************************************************)
(* The initial state: the seeded slots, some of them already holding       *)
(* bookings made earlier (one BOOKED walk-in token per unit of             *)
(* currentCount).                                                          *)
(***************************************************************************)
FirstSlot == <<"d1", StartHour>>

BookedTokens(k) ==
  [t \in TokenIds |->
     IF t <= k
       THEN [slotId |-> FirstSlot, type |-> "WALK_IN", status |-> "BOOKED",
             patientName |-> <<"A", "l">>]
       ELSE NoToken]

InitDb(k) ==
  /\ slots = [SeededSlots EXCEPT ![FirstSlot].currentCount = k]
  /\ tokens = BookedTokens(k)
  /\ db0 = [slots |-> slots, tokens |-> tokens]

InitCalls ==
  /\ pc = [c \in Calls |-> "idle"]
  /\ req = [c \in Calls |-> NoReq]
  /\ tx = [c \in Calls |-> NoTx]
  /\ out = [c \in Calls |-> NoOut]

Init ==
  /\ \E k \in 0 .. SlotCapacity : InitDb(k)
  /\ InitCalls

(***************************************************************************)
(* Either handler run alone on the collections db, as one function: what   *)
(* it returns or throws, and the collections it leaves.  tokId is the id   *)
(* new Token() draws.                                                      *)
(***************************************************************************)
SeqResult(db, o) == [db |-> db, out |-> o]

SeqBook(db, r, tokId) ==
  LET matches == {s \in SlotIds : /\ db.slots[s].doctorId = r.doctorId
                                  /\ db.slots[s].startTime <= r.slotTime
                                  /\ db.slots[s].endTime > r.slotTime}
  IN  IF BookInputError(r) # NoError THEN SeqResult(db, Failure(BookInputError(r)))
      ELSE IF r.doctorId \notin Doctors
        THEN SeqResult(db, Failure(AppError("Doctor not found", 404)))
      ELSE IF matches = {}
        THEN SeqResult(db, Failure(AppError("No slot found", 404)))
      ELSE
        LET s == CHOOSE m \in matches : TRUE
            count == db.slots[s].currentCount
            full == IsSlotFull(count, db.slots[s].maxCapacity)
        IN  IF full /\ ~IsEmergency(r.type)
              THEN SeqResult(db, Failure(AppError("Slot is full", 409)))
            ELSE IF \/ ~ValidPatientName(r.patientName)
                    \/ ~ValidCurrentCount(Incremented(count), db.slots[s].maxCapacity)
              THEN SeqResult(db, Failure(AppError("Failed to book token", 500)))
            ELSE SeqResult(
                   [slots |-> [db.slots EXCEPT ![s].currentCount = Incremented(count)],
                    tokens |-> [db.tokens EXCEPT ![tokId] =
                                  [slotId |-> s, type |-> r.type, status |-> "BOOKED",
                                   patientName |-> Trim(r.patientName)]]],
                   [NoOut EXCEPT
                      !.code = 201,
                      !.msg = IF IsEmergency(r.type) /\ full
                                THEN "Emergency token booked (exceeding normal capacity)"
                                ELSE "Token booked successfully",
                      !.tok = tokId, !.status = "BOOKED", !.slot = s,
                      !.currentCount = Incremented(count),
                      !.remainingSlots =
                        Max(0, db.slots[s].maxCapacity - Incremented(count))])

SeqCancel(db, r) ==
  IF CancelInputError(r) # NoError THEN SeqResult(db, Failure(CancelInputError(r)))
  ELSE
    LET token == db.tokens[r.tokenId]
        s == AssociatedSlot(token)
    IN  IF token.status = "NONE"
          THEN SeqResult(db, Failure(AppError("Token not found", 404)))
        ELSE IF CancelStatusError(token.status) # NoError
          THEN SeqResult(db, Failure(CancelStatusError(token.status)))
        ELSE IF s \notin SlotIds
          THEN SeqResult(db, Failure(AppError("Associated slot not found", 404)))
        ELSE IF /\ HasCount(db.slots[s].currentCount)
                /\ ~ValidCurrentCount(Decremented(db.slots[s].currentCount),
                                      db.slots[s].maxCapacity)
          THEN SeqResult(db, Failure(AppError("Failed to cancel token", 500)))
        ELSE SeqResult(
               [slots |-> IF HasCount(db.slots[s].currentCount)
                            THEN [db.slots EXCEPT ![s].currentCount = Decremented(@)]
                            ELSE db.slots,
                tokens |-> [db.tokens EXCEPT ![r.tokenId].status = "CANCELLED"]],
               [NoOut EXCEPT !.code = 200, !.msg = "Token cancelled successfully",
                             !.tok = r.tokenId, !.status = "CANCELLED", !.slot = s,
                             !.was = token.status])

SeqRun(db, r, tokId) == IF r.op = "book" THEN SeqBook(db, r, tokId) ELSE SeqCancel(db, r)

(***************************************************************************)
(* The workloads.                                                          *)
(***************************************************************************)
Book(doctorId, slotTime, patientName, type) ==
  [op |-> "book", doctorId |-> doctorId, slotTime |-> slotTime,
   patientName |-> patientName, type |-> type, tokenId |-> 0]
Cancel(tokenId) ==
  [op |-> "cancel", doctorId |-> "", slotTime |-> 0, patientName |-> <<>>,
   type |-> "", tokenId |-> tokenId]

\* the requests made concurrently
Requests ==
  {Book("d1", StartHour, <<"A", "l">>, "WALK_IN"),
   Book("d1", StartHour, <<"A", "l">>, "EMERGENCY"),
   Book("d1", StartHour + NHours, <<"A", "l">>, "ONLINE"),
   Cancel(1), Cancel(2)}

\* the requests made one after another
SeqRequests ==
  {Book("d1", StartHour, <<"A", "l">>, type) : type \in TokenType}
  \cup {Book("d1", StartHour + 1, <<"A", "l">>, "WALK_IN"),
        Book("d1", StartHour + NHours, <<"A", "l">>, "ONLINE"),
        Book("d2", StartHour, <<" ", "A", "l">>, "FOLLOW_UP"),
        Book("dX", StartHour, <<"A", "l">>, "WALK_IN"),
        Book("d1", StartHour, <<" ", "A", " ">>, "EMERGENCY")}
  \cup {Cancel(t) : t \in {1, 2, 3}}

Quiet == \A c \in Calls : ~Active(c)

Step(c) ==
  \/ BookFindDoctor(c)
  \/ BookFindSlot(c)
  \/ BookSaveToken(c)
  \/ BookSaveSlot(c)
  \/ BookCommit(c)
  \/ BookCatch(c)
  \/ CancelFindToken(c)
  \/ CancelSaveToken(c)
  \/ CancelFindSlot(c)
  \/ CancelSaveSlot(c)
  \/ CancelCommit(c)
  \/ CancelCatch(c)

\* concurrent calls over a storage layer that may fail
Next ==
  \E c \in Calls :
    \/ \E r \in Requests : BookStart(c, r)
    \/ \E r \in Requests : CancelStart(c, r)
    \/ Step(c)
    \/ StorageFault(c)

Spec == Init /\ [][Next]_vars

\* concurrent calls over a storage layer that does not fail
NextNoFault ==
  \E c \in Calls :
    \/ \E r \in Requests : BookStart(c, r)
    \/ \E r \in Requests : CancelStart(c, r)
    \/ Step(c)

SpecNoFault == Init /\ [][NextNoFault]_vars

\* one call at a time over a storage layer that does not fail
NextSeq ==
  \E c \in Calls :
    \/ Quiet /\ \E r \in SeqRequests : BookStart(c, r)
    \/ Quiet /\ \E r \in SeqRequests : CancelStart(c, r)
    \/ Step(c)

SpecSeq == Init /\ [][NextSeq]_vars

(***************************************************************************)
(* Collections that also hold tokens the booking path does not leave:      *)
(* the first token of the first slot has any status of the enum (COMPLETED *)
(* and NO_SHOW are set outside TokenService), the second was perhaps       *)
(* cancelled earlier, the others are BOOKED, and the slot counts its       *)
(* BOOKED tokens.                                                          *)
(***************************************************************************)
StatusTokens(k, status1, status2) ==
  [t \in TokenIds |->
     IF t = 1 THEN [BookedTokens(k)[t] EXCEPT !.status = status1]
     ELSE IF t = 2 /\ t <= k THEN [BookedTokens(k)[t] EXCEPT !.status = status2]
     ELSE BookedTokens(k)[t]]

InitStatusDb(k, status1, status2) ==
  /\ tokens = StatusTokens(k, status1, status2)
  /\ slots = [SeededSlots EXCEPT ![FirstSlot].currentCount = BookedCount(tokens, FirstSlot)]
  /\ db0 = [slots |-> slots, tokens |-> tokens]

InitStatus ==
  /\ \E k \in 1 .. SlotCapacity :
       \E status1 \in TokenStatus, status2 \in {"BOOKED", "CANCELLED"} :
         InitStatusDb(k, status1, status2)
  /\ InitCalls

StatusRequests ==
  {Book("d1", StartHour, <<"A", "l">>, "WALK_IN"),
   Book("d1", StartHour, <<"A", "l">>, "EMERGENCY"),
   Cancel(1), Cancel(2)}

NextStatus ==
  \E c \in Calls :
    \/ \E r \in StatusRequests : BookStart(c, r)
    \/ \E r \in StatusRequests : CancelStart(c, r)
    \/ Step(c)

SpecStatus == InitStatus /\ [][NextStatus]_vars

\* concurrent calls on several slots of the two doctors
ParallelRequests ==
  {Book("d1", StartHour, <<"A", "l">>, "WALK_IN"),
   Book("d1", StartHour + 1, <<"A", "l">>, "WALK_IN"),
   Book("d2", StartHour, <<"A", "l">>, "EMERGENCY"),
   Cancel(1)}

NextParallel ==
  \E c \in Calls :
    \/ \E r \in ParallelRequests : BookStart(c, r)
    \/ \E r \in ParallelRequests : CancelStart(c, r)
    \/ Step(c)

SpecParallel == Init /\ [][NextParallel]_vars

(***************************************************************************)
(* The read-only views of a slot: TokenController.getDoctorSlots, and the  *)
(* Slot document turned into an object with its virtuals.                  *)
(***************************************************************************)
\* tokenController.ts lines 176-187
SlotWithAvailability(s, slot) ==
  [id |-> s, maxCapacity |-> slot.maxCapacity, currentCount |-> slot.currentCount,
   remainingSlots |-> Max(0, slot.maxCapacity - slot.currentCount),
   isAvailable |-> (slot.currentCount < slot.maxCapacity),
   status |-> IF slot.currentCount >= slot.maxCapacity THEN "FULL" ELSE "AVAILABLE"]

\* the Slot schema's toObject / toJSON with virtuals
SlotToObject(s, slot) ==
  [id |-> s, maxCapacity |-> slot.maxCapacity, currentCount |-> slot.currentCount,
   remainingSlots |-> VirtualRemainingSlots(slot),
   isAvailable |-> VirtualIsAvailable(slot),
   status |-> ""]

\* Slot.find({ doctorId }).sort({ startTime: 1 })
RECURSIVE SortedByStartTime(_)
SortedByStartTime(S) ==
  IF S = {} THEN <<>>
  ELSE LET first == CHOOSE s \in S : \A u \in S : slots[s].startTime <= slots[u].startTime
       IN  <<first>> \o SortedByStartTime(S \ {first})

DoctorSlots(doctorId) ==
  SortedByStartTime({s \in SlotIds : slots[s].doctorId = doctorId})

GetSlots(doctorId) ==
  [op |-> "slots", doctorId |-> doctorId, slotTime |-> 0, patientName |-> <<>>,
   type |-> "", tokenId |-> 0]
ToObject(doctorId, slotTime) ==
  [op |-> "object", doctorId |-> doctorId, slotTime |-> slotTime, patientName |-> <<>>,
   type |-> "", tokenId |-> 0]

\* lines 153-157: the params are validated
GetDoctorSlotsStart(c, r) ==
  /\ MayStart(c)
  /\ r.op = "slots"
  /\ IF ~IsValidObjectId(r.doctorId)
       THEN Reject(c, r, AppError("Validation error", 400))
       ELSE /\ req' = [req EXCEPT ![c] = r]
            /\ pc' = [pc EXCEPT ![c] = "slotsFindDoctor"]
            /\ UNCHANGED <<slots, tokens, db0, tx, out>>

\* lines 159-169: Doctor.findById
GetDoctorSlotsFindDoctor(c) ==
  /\ pc[c] = "slotsFindDoctor"
  /\ IF req[c].doctorId \notin Doctors
       THEN Finish(c, Failure(AppError("Doctor not found", 404)), slots)
       ELSE pc' = [pc EXCEPT ![c] = "slotsFind"] /\ UNCHANGED out
  /\ UNCHANGED <<slots, tokens, db0, req, tx>>

\* line 199: slotsWithAvailability.filter((s) => s.isAvailable)
IsListedAvailable(v) == v.isAvailable

\* lines 171-201: Slot.find, the slots mapped to their availability
GetDoctorSlotsFind(c) ==
  /\ pc[c] = "slotsFind"
  /\ LET found == DoctorSlots(req[c].doctorId)
         slotsWithAvailability ==
           [i \in 1 .. Len(found) |-> SlotWithAvailability(found[i], slots[found[i]])]
     IN  Finish(c, [NoOut EXCEPT
                      !.code = 200,
                      !.view = slotsWithAvailability,
                      !.totalSlots = Len(slotsWithAvailability),
                      !.availableSlots =
                        Len(SelectSeq(slotsWithAvailability, IsListedAvailable))],
                slots)
  /\ UNCHANGED <<slots, tokens, db0, req, tx>>

\* a Slot document is read and turned into an object
SlotDocumentToObject(c, r) ==
  /\ MayStart(c)
  /\ r.op = "object"
  /\ <<r.doctorId, r.slotTime>> \in SlotIds
  /\ req' = [req EXCEPT ![c] = r]
  /\ LET s == <<r.doctorId, r.slotTime>>
     IN  Finish(c, [NoOut EXCEPT !.code = 200,
                                 !.view = <<SlotToObject(s, slots[s])>>], slots)
  /\ UNCHANGED <<slots, tokens, db0, tx>>

\* the first slot holds k BOOKED tokens, for every k up to one above its
\* capacity
InitViews ==
  /\ \E k \in 0 .. (SlotCapacity + 1) : InitDb(k)
  /\ InitCalls

ViewRequests ==
  {GetSlots("d1"), GetSlots("dX"), GetSlots("zz"), ToObject("d1", StartHour),
   Book("d1", StartHour, <<"A", "l">>, "WALK_IN"),
   Book("d1", StartHour, <<"A", "l">>, "EMERGENCY"),
   Cancel(1)}

NextViews ==
  \E c \in Calls :
    \/ \E r \in ViewRequests : GetDoctorSlotsStart(c, r)
    \/ GetDoctorSlotsFindDoctor(c)
    \/ GetDoctorSlotsFind(c)
    \/ \E r \in ViewRequests : SlotDocumentToObject(c, r)
    \/ \E r \in ViewRequests : BookStart(c, r)
    \/ \E r \in ViewRequests : CancelStart(c, r)
    \/ Step(c)

SpecViews == InitViews /\ [][NextViews]_vars

(***************************************************************************)
(* Collections in which the first token references a slot that is no       *)
(* longer in the Slot collection; the other tokens are those of the first  *)
(* slot.                                                                   *)
(***************************************************************************)
OrphanTokens(k) ==
  [t \in TokenIds |->
     IF t = 1 THEN [BookedTokens(k)[t] EXCEPT !.slotId = GhostSlot]
     ELSE BookedTokens(k)[t]]

InitOrphan ==
  /\ \E k \in 1 .. SlotCapacity :
       /\ tokens = OrphanTokens(k)
       /\ slots = [SeededSlots EXCEPT
                     ![FirstSlot].currentCount = BookedCount(tokens, FirstSlot)]
       /\ db0 = [slots |-> slots, tokens |-> tokens]
  /\ InitCalls

SpecOrphan == InitOrphan /\ [][NextStatus]_vars

\* concurrent calls, many of them with inputs the handlers reject
InputRequests ==
  {Book("", StartHour, <<"A", "l">>, "WALK_IN"),
   Book("d1", 0, <<"A", "l">>, "WALK_IN"),
   Book("d1", StartHour, <<>>, "WALK_IN"),
   Book("d1", StartHour, <<"A", "l">>, ""),
   Book("zz", StartHour, <<"A", "l">>, "WALK_IN"),
   Book("d1", StartHour, <<"A", "l">>, "BOGUS"),
   Book("zz", StartHour, <<"A", "l">>, "BOGUS"),
   Book("d1", StartHour, <<"A", "l">>, "WALK_IN"),
   Cancel(0), Cancel(-1), Cancel(1)}

NextInputs ==
  \E c \in Calls :
    \/ \E r \in InputRequests : BookStart(c, r)
    \/ \E r \in InputRequests : CancelStart(c, r)
    \/ Step(c)

SpecInputs == Init /\ [][NextInputs]_vars

(***************************************************************************)
(* TokenService.getTokensBySlot, a read outside any transaction.           *)
(***************************************************************************)
\* line 302: the filter { slotId, status: { $ne: CANCELLED } }
TokenFilterBug(token, s) == token.status # "NONE" /\ token.slotId = s

TokenFilter(token, s) ==
  token.status # "NONE" /\ token.slotId = s /\ token.status # "CANCELLED"

\* line 303: sort({ requestTime: 1 })
RECURSIVE SortedByRequestTime(_)
SortedByRequestTime(T) ==
  IF T = {} THEN <<>>
  ELSE LET first == CHOOSE t \in T : \A u \in T : RequestTime(t) <= RequestTime(u)
       IN  <<first>> \o SortedByRequestTime(T \ {first})

TokensBySlot(doctorId, slotTime) ==
  [op |-> "tokensBySlot", doctorId |-> doctorId, slotTime |-> slotTime,
   patientName |-> <<>>, type |-> "", tokenId |-> 0]

\* lines 297-300: the slot id is checked
GetTokensBySlotStart(c, r) ==
  /\ MayStart(c)
  /\ r.op = "tokensBySlot"
  /\ IF ~IsValidObjectId(r.doctorId)
       THEN Reject(c, r, AppError("Invalid slot ID", 400))
       ELSE /\ req' = [req EXCEPT ![c] = r]
            /\ pc' = [pc EXCEPT ![c] = "tokensFind"]
            /\ UNCHANGED <<slots, tokens, db0, tx, out>>

\* lines 302-304: Token.find, sorted
GetTokensBySlotFind(c) ==
  /\ pc[c] = "tokensFind"
  /\ LET s == <<req[c].doctorId, req[c].slotTime>>
         found == SortedByRequestTime({t \in TokenIds : TokenFilter(tokens[t], s)})
     IN  Finish(c, [NoOut EXCEPT
                      !.code = 200,
                      !.view = [i \in 1 .. Len(found) |->
                                  [id |-> found[i], slotId |-> tokens[found[i]].slotId,
                                   status |-> tokens[found[i]].status,
                                   requestTime |-> RequestTime(found[i])]]],
                slots)
  /\ UNCHANGED <<slots, tokens, db0, req, tx>>

QueryRequests ==
  {TokensBySlot("d1", StartHour), TokensBySlot("d2", StartHour), TokensBySlot("zz", 0),
   Book("d1", StartHour, <<"A", "l">>, "WALK_IN"),
   Cancel(1), Cancel(2)}

NextQueries ==
  \E c \in Calls :
    \/ \E r \in QueryRequests : GetTokensBySlotStart(c, r)
    \/ GetTokensBySlotFind(c)
    \/ \E r \in QueryRequests : BookStart(c, r)
    \/ \E r \in QueryRequests : CancelStart(c, r)
    \/ Step(c)

SpecQueries == Init /\ [][NextQueries]_vars

(***************************************************************************)
(* TokenController.bookToken, POST /api/book: the body names the slot by   *)
(* its id; the controller reads the slot and calls TokenService.bookToken  *)
(* with the slot's doctorId and startTime.  The request of such a call     *)
(* keeps the slot id of the body in the field slotId.                      *)
(***************************************************************************)
PostBook(slotId, patientName, type) ==
  [op |-> "post", doctorId |-> "", slotTime |-> 0, patientName |-> patientName,
   type |-> type, tokenId |-> 0, slotId |-> slotId]

ViaController(c) == "slotId" \in DOMAIN req[c]

\* tokenController.ts lines 10-17: bookTokenSchema (the name is not trimmed)
BookTokenSchemaError(r) ==
  IF \/ Len(r.patientName) < MinNameLength \/ Len(r.patientName) > MaxNameLength
     \/ r.type \notin TokenType
     \/ ~IsValidObjectId(r.slotId[1])
    THEN AppError("Validation error", 400)
    ELSE NoError

\* lines 39-43 and 68-81: bookTokenSchema.parse(req.body)
ControllerBookStart(c, r) ==
  /\ MayStart(c)
  /\ r.op = "post"
  /\ IF BookTokenSchemaError(r) # NoError
       THEN Reject(c, r, BookTokenSchemaError(r))
       ELSE /\ req' = [req EXCEPT ![c] = r]
            /\ pc' = [pc EXCEPT ![c] = "findById"]
            /\ UNCHANGED <<slots, tokens, db0, tx, out>>

\* lines 59-64: the arguments the controller gives TokenService.bookToken
ServiceArguments(r, slot) ==
  [op |-> "book", doctorId |-> slot.doctorId, slotTime |-> slot.startTime,
   patientName |-> r.patientName, type |-> r.type, tokenId |-> 0,
   slotId |-> r.slotId]

\* lines 45-64: Slot.findById, then TokenService.bookToken is entered: its
\* input checks, startSession and startTransaction
ControllerBookFindSlot(c) ==
  /\ pc[c] = "findById"
  /\ IF req[c].slotId \notin SlotIds
       THEN /\ Finish(c, Failure(AppError("Slot not found. Please provide a valid slot ID.",
                                          400)), slots)
            /\ UNCHANGED <<req, tx>>
       ELSE LET r == ServiceArguments(req[c], slots[req[c].slotId])
            IN  IF BookInputError(r) # NoError
                  THEN /\ req' = [req EXCEPT ![c] = r]
                       /\ Finish(c, Failure(BookInputError(r)), slots)
                       /\ UNCHANGED tx
                  ELSE Begin(c, r, "findDoctor") /\ UNCHANGED out
  /\ UNCHANGED <<slots, tokens, db0>>

\* lines 66-104: the status code of the HTTP response, from what
\* TokenService.bookToken returned or threw
HttpStatus(o) ==
  IF o.code = 201 THEN 201
  ELSE IF o.msg = "Slot is full" THEN 409
  ELSE IF o.code > 0 THEN o.code
  ELSE 500

\* Slot collections of the first doctor that the schema accepts (endTime
\* after startTime): every slot ends at any later hour, so the slots of
\* the doctor may overlap.
EndTimes ==
  {e \in [Hours -> (StartHour + 1) .. (StartHour + NHours)] : \A h \in Hours : e[h] > h}

SlotWindows ==
  {[s \in SlotIds |->
      IF s[1] = "d1" THEN [SeededSlots[s] EXCEPT !.endTime = e[s[2]]]
      ELSE SeededSlots[s]] : e \in EndTimes}

InitWindows ==
  /\ \E sl \in SlotWindows, k \in 0 .. SlotCapacity :
       /\ slots = [sl EXCEPT ![FirstSlot].currentCount = k]
       /\ tokens = BookedTokens(k)
       /\ db0 = [slots |-> slots, tokens |-> tokens]
  /\ InitCalls

PostRequests ==
  {PostBook(<<"d1", StartHour>>, <<"A", "l">>, "WALK_IN"),
   PostBook(<<"d1", StartHour + 1>>, <<"A", "l">>, "WALK_IN"),
   PostBook(GhostSlot, <<"A", "l">>, "WALK_IN"),
   PostBook(<<"zz", 0>>, <<"A", "l">>, "WALK_IN"),
   Cancel(1)}

NextPost ==
  \E c \in Calls :
    \/ \E r \in PostRequests : ControllerBookStart(c, r)
    \/ ControllerBookFindSlot(c)
    \/ \E r \in PostRequests : CancelStart(c, r)
    \/ Step(c)

\* POST /api/book and cancelToken over any slot windows of the first doctor
SpecPost == InitWindows /\ [][NextPost]_vars

(***************************************************************************)
(* scripts/seed.ts, run by the first call: the collections are cleared,    *)
(* the doctors are inserted, and for every doctor the slots of today are   *)
(* generated and inserted.  Here the Slot collection is the sequence of    *)
(* the documents inserted, a Date of today is <<hour, minute>>, and a      *)
(* slot's doctorId is the place of the doctor in the seed's list.  When    *)
(* the seed has ended, the slot of a doctor at an instant is looked up     *)
(* with the filter of bookToken.                                           *)
(***************************************************************************)
EndHour == 17
SeedCapacity == 10
SeedDoctors == <<"Dr. Rajesh Kumar", "Dr. Priya Sharma", "Dr. Amit Patel">>

Seeder == 1

AtOrBefore(a, b) == a[1] < b[1] \/ (a[1] = b[1] /\ a[2] <= b[2])
Before(a, b) == AtOrBefore(a, b) /\ a # b

\* line 32: endTime.setHours(hour + 1, 0, 0, 0)
SlotEndHourBug(hour) == hour + 2

SlotEndHour(hour) == hour + 1

\* lines 27-41: the slots pushed from hour on
RECURSIVE SlotsFrom(_, _)
SlotsFrom(doctorId, hour) ==
  IF hour < EndHour
    THEN <<[doctorId |-> doctorId, startTime |-> <<hour, 0>>,
            endTime |-> <<SlotEndHour(hour), 0>>,
            maxCapacity |-> SeedCapacity, currentCount |-> 0]>>
         \o SlotsFrom(doctorId, hour + 1)
    ELSE <<>>

\* lines 18-44
generateSlotsForToday(doctorId) == SlotsFrom(doctorId, StartHour)

\* collections left by an earlier day: none, or slots of the first doctor
\* that overlap
LeftoverSlots ==
  {<<>>,
   <<[doctorId |-> 1, startTime |-> <<StartHour, 0>>, endTime |-> <<EndHour, 0>>,
      maxCapacity |-> SeedCapacity, currentCount |-> 1],
     [doctorId |-> 1, startTime |-> <<StartHour, 30>>, endTime |-> <<EndHour, 0>>,
      maxCapacity |-> SeedCapacity, currentCount |-> 0]>>}

InitSeed ==
  /\ \E old \in LeftoverSlots : slots = old
  /\ tokens = IF slots = <<>> THEN <<>>
              ELSE <<[slotId |-> 1, type |-> "WALK_IN", status |-> "BOOKED",
                      patientName |-> <<"A", "l">>]>>
  /\ db0 = [slots |-> slots, tokens |-> tokens]
  /\ pc = [c \in Calls |-> IF c = Seeder THEN "seedClear" ELSE "idle"]
  /\ req = [c \in Calls |-> NoReq]
  /\ tx = [c \in Calls |-> NoTx]
  /\ out = [c \in Calls |-> NoOut]

\* lines 53-58: Token.deleteMany, Slot.deleteMany, Doctor.deleteMany
SeedClear ==
  /\ pc[Seeder] = "seedClear"
  /\ slots' = <<>>
  /\ tokens' = <<>>
  /\ pc' = [pc EXCEPT ![Seeder] = "seedDoctors"]
  /\ UNCHANGED <<db0, req, tx, out>>

\* lines 60-63: Doctor.insertMany; tx.tok is the place of the next doctor
SeedDoctorsInsert ==
  /\ pc[Seeder] = "seedDoctors"
  /\ tx' = [tx EXCEPT ![Seeder].tok = 1]
  /\ pc' = [pc EXCEPT ![Seeder] = "seedSlots"]
  /\ UNCHANGED <<slots, tokens, db0, req, out>>

\* lines 69-74: one turn of the loop over the doctors, Slot.insertMany
SeedSlotsInsert ==
  /\ pc[Seeder] = "seedSlots"
  /\ IF tx[Seeder].tok <= Len(SeedDoctors)
       THEN /\ slots' = slots \o generateSlotsForToday(tx[Seeder].tok)
            /\ tx' = [tx EXCEPT ![Seeder].tok = @ + 1]
            /\ UNCHANGED pc
       ELSE /\ pc' = [pc EXCEPT ![Seeder] = "seeded"]
            /\ UNCHANGED <<slots, tx>>
  /\ UNCHANGED <<tokens, db0, req, out>>

\* token.service.ts lines 83-87 on the seeded collection: the slots of
\* the doctor whose window holds the instant
SeededSlotsAt(doctorId, instant) ==
  {i \in 1 .. Len(slots) : /\ slots[i].doctorId = doctorId
                           /\ AtOrBefore(slots[i].startTime, instant)
                           /\ Before(instant, slots[i].endTime)}

Instants == (0 .. 23) \X {0, 30, 59}

\* the slot of a doctor at an instant is looked up
SeededSlotLookup(doctorId, instant) ==
  /\ pc[Seeder] = "seeded"
  /\ req' = [req EXCEPT ![Seeder] = [NoReq EXCEPT !.op = "lookup", !.doctorId = doctorId,
                                                  !.slotTime = instant]]
  /\ out' = [out EXCEPT ![Seeder] = [NoOut EXCEPT !.code = 200,
                                                  !.view = SeededSlotsAt(doctorId, instant)]]
  /\ UNCHANGED <<slots, tokens, db0, pc, tx>>

NextSeed ==
  \/ SeedClear
  \/ SeedDoctorsInsert
  \/ SeedSlotsInsert
  \/ \E d \in 1 .. Len(SeedDoctors), instant \in Instants : SeededSlotLookup(d, instant)

SpecSeed == InitSeed /\ [][NextSeed]_vars

(***************************************************************************)
(* Properties.                                                             *)
(***************************************************************************)
AllDone == \A c \in Calls : Done(c)
IsBook(c) == req[c].op = "book"
IsCancel(c) == req[c].op = "cancel"
Committed == {c \in Calls : Succeeded(c)}

NonEmergencyAtFirstSlot(c) ==
  /\ IsBook(c)
  /\ ~IsEmergency(req[c].type)
  /\ req[c].doctorId = "d1" /\ req[c].slotTime = StartHour
  /\ ValidPatientName(req[c].patientName)

Remaining0 == db0.slots[FirstSlot].maxCapacity - db0.slots[FirstSlot].currentCount

\* C2: when NCalls non-emergency bookings, and nothing else, have run
\* against a slot with R < NCalls places left, exactly R succeeded, the
\* others failed with 409 "Slot is full", and the slot is exactly full.
NoLostUpdate ==
  (/\ AllDone
   /\ \A c \in Calls : NonEmergencyAtFirstSlot(c)
   /\ Remaining0 < NCalls)
  => /\ Cardinality(Committed) = Remaining0
     /\ \A c \in Calls \ Committed : out[c].code = 409 /\ out[c].msg = "Slot is full"
     /\ slots[FirstSlot].currentCount = slots[FirstSlot].maxCapacity

\* C3: a non-emergency booking whose slot is full when the call comes to
\* its end fails with 409 "Slot is full" and leaves the count as it was.
FullSlotRejectsWithSlotFull ==
  \A c \in Calls :
    (/\ Done(c) /\ IsBook(c) /\ ~IsEmergency(req[c].type)
     /\ out[c].slot \in SlotIds
     /\ out[c].pre >= slots[out[c].slot].maxCapacity)
    => /\ out[c].code = 409 /\ out[c].msg = "Slot is full"
       /\ out[c].post = out[c].pre

\* C4: an EMERGENCY booking that finds its slot full succeeds, raises the
\* committed count by one above the capacity and is tagged as exceeding it.
EmergencyOverride ==
  \A c \in Calls :
    (/\ Done(c) /\ IsBook(c) /\ IsEmergency(req[c].type)
     /\ ValidPatientName(req[c].patientName)
     /\ out[c].slot \in SlotIds
     /\ out[c].read >= slots[out[c].slot].maxCapacity)
    => /\ out[c].code = 201
       /\ out[c].msg = "Emergency token booked (exceeding normal capacity)"
       /\ out[c].post = out[c].pre + 1
       /\ out[c].post > slots[out[c].slot].maxCapacity

\* C5: an EMERGENCY booking of an existing slot succeeds whatever other
\* calls run beside it.
EmergencyNeverFails ==
  \A c \in Calls :
    (/\ Done(c) /\ IsBook(c) /\ IsEmergency(req[c].type)
     /\ ValidPatientName(req[c].patientName)
     /\ out[c].slot \in SlotIds)
    => out[c].code = 201

\* what a committed booking does to the collections
BookEffect(c) ==
  \E t \in TokenIds :
    /\ tokens[t].status = "NONE"
    /\ tokens'[t].status = "BOOKED"
    /\ tokens'[t].slotId \in SlotIds
    /\ \A u \in TokenIds \ {t} : tokens'[u] = tokens[u]
    /\ slots' = [slots EXCEPT ![tokens'[t].slotId].currentCount = @ + 1]
    /\ out'[c].tok = t

\* what a committed cancellation does to the collections
CancelEffect(c) ==
  LET t == req[c].tokenId
      s == tokens[t].slotId
  IN  /\ tokens[t].status \notin {"NONE", "CANCELLED"}
      /\ tokens' = [tokens EXCEPT ![t].status = "CANCELLED"]
      /\ \/ slots' = [slots EXCEPT ![s].currentCount = @ - 1]
         \/ slots[s].currentCount = 0 /\ slots' = slots

Finishes(c) == pc[c] # "done" /\ pc'[c] = "done"

\* C6: the collections change only in the one step in which a call
\* commits, and then by the whole effect of that call (token and count
\* together); a call that ends in failure leaves them as they were.
Atomicity ==
  [][/\ (<<slots, tokens>>' # <<slots, tokens>>)
          => \E c \in Calls : Finishes(c) /\ out'[c].code \in {200, 201}
     /\ \A c \in Calls :
          /\ (Finishes(c) /\ out'[c].code = 201) => BookEffect(c)
          /\ (Finishes(c) /\ out'[c].code = 200) => CancelEffect(c)
          /\ (Finishes(c) /\ out'[c].code \notin {200, 201})
               => UNCHANGED <<slots, tokens>>]_vars

\* a booking was given up after its token had been saved in the
\* transaction, and another call has committed
AtomicityWitness ==
  \E c, d \in Calls :
    /\ Done(c) /\ IsBook(c) /\ ~Succeeded(c) /\ out[c].tok # 0
    /\ Succeeded(d)

Perms(S) ==
  {f \in [1 .. Cardinality(S) -> S] :
     \A i, j \in 1 .. Cardinality(S) : i # j => f[i] # f[j]}

SameOutcome(a, b) ==
  /\ a.code = b.code /\ a.msg = b.msg /\ a.tok = b.tok /\ a.slot = b.slot
  /\ a.status = b.status /\ a.currentCount = b.currentCount
  /\ a.remainingSlots = b.remainingSlots

RECURSIVE ReplayMatches(_, _, _, _)
ReplayMatches(db, order, i, n) ==
  IF i > n THEN db.slots = slots /\ db.tokens = tokens
  ELSE LET c == order[i]
           res == SeqRun(db, req[c], out[c].tok)
       IN  SameOutcome(res.out, out[c]) /\ ReplayMatches(res.db, order, i + 1, n)

\* C7: the committed calls can be put in an order in which, run one after
\* another from the initial collections, they return what they returned
\* and leave the collections as they are.
Serializable ==
  \E order \in Perms(Committed) :
    ReplayMatches(db0, order, 1, Cardinality(Committed))

\* a call has committed and another lost a write conflict to it
SerializableWitness ==
  \E c, d \in Calls : Succeeded(c) /\ Done(d) /\ out[d].cause = "WriteConflict"

CouldNotCommit(c) ==
  Done(c) /\ out[c].cause \in {"MongoError", "WriteConflict", "ValidationError"}

\* C8: a call whose transaction could not commit reports the generic 500
\* of its handler and leaves the collections as they were.
TransactionFailedIsGeneric ==
  \A c \in Calls :
    CouldNotCommit(c)
    => /\ out[c].code = 500
       /\ out[c].msg = IF IsBook(c) THEN "Failed to book token"
                                    ELSE "Failed to cancel token"
       /\ out[c].post = out[c].pre

\* C9: of two cancellations of one token that was BOOKED, made one after
\* the other, the first succeeds and lowers the count by one, the second
\* fails with "Token is already cancelled" and changes nothing.
CancelTwice ==
  \A c, d \in Calls :
    (/\ c < d /\ Done(c) /\ Done(d) /\ IsCancel(c) /\ IsCancel(d)
     /\ req[c].tokenId = req[d].tokenId
     /\ out[c].was = "BOOKED")
    => /\ out[c].code = 200
       /\ out[c].post = out[c].pre - 1
       /\ out[d].code = 400 /\ out[d].msg = "Token is already cancelled"
       /\ tokens[req[d].tokenId].status = "CANCELLED"
       /\ \A e \in Calls : (c < e /\ e <= d /\ IsCancel(e) /\ Done(e)
                            /\ req[e].tokenId = req[c].tokenId)
                           => out[e].post = out[e].pre

CancelTwiceWitness ==
  \E c, d \in Calls :
    /\ c < d /\ Done(c) /\ Done(d) /\ IsCancel(c) /\ IsCancel(d)
    /\ req[c].tokenId = req[d].tokenId
    /\ out[c].was = "BOOKED" /\ out[d].code = 400

\* C10: a booking that is admitted, followed at once by the cancellation
\* of the token it returned, leaves the slot's count as it was before the
\* booking.
BookThenCancel ==
  \A b, c \in Calls :
    (/\ c = b + 1 /\ Done(b) /\ Done(c)
     /\ IsBook(b) /\ out[b].code = 201
     /\ IsCancel(c) /\ req[c].tokenId = out[b].tok)
    => /\ out[c].code = 200
       /\ out[c].slot = out[b].slot
       /\ out[b].post = out[b].pre + 1
       /\ out[c].pre = out[b].post
       /\ out[c].post = out[b].pre

BookThenCancelWitness ==
  \E b, c \in Calls :
    /\ c = b + 1 /\ Done(b) /\ Done(c)
    /\ IsBook(b) /\ out[b].code = 201
    /\ IsCancel(c) /\ req[c].tokenId = out[b].tok /\ out[c].code = 200

\* the lookup of call c finds no token with the requested id
LooksUpUnknownToken(c) ==
  /\ pc[c] = "cancelFindToken" /\ pc'[c] # "cancelFindToken"
  /\ tokens[req[c].tokenId].status = "NONE"

NotFoundPending(c) ==
  pc[c] = "cancelCatch" /\ tx[c].err = AppError("Token not found", 404)

\* C11: a cancelToken whose id matches no token goes to its catch block
\* with 'Token not found', ends with 404 'Token not found', and neither of
\* its steps changes a token or a slot.
CancelUnknownToken ==
  [][\A c \in Calls :
       /\ LooksUpUnknownToken(c)
            => NotFoundPending(c)' /\ UNCHANGED <<slots, tokens>>
       /\ (NotFoundPending(c) /\ Finishes(c))
            => /\ out'[c].code = 404 /\ out'[c].msg = "Token not found"
               /\ UNCHANGED <<slots, tokens>>]_vars

\* a cancellation of an unknown id has ended while the collections hold
\* what another call committed
CancelUnknownTokenWitness ==
  \E c, d \in Calls :
    /\ Done(c) /\ IsCancel(c) /\ out[c].code = 404
    /\ tokens[req[c].tokenId].status = "NONE"
    /\ Succeeded(d)

\* the lookup of call c finds a token with the given status
LooksUpToken(c, status) ==
  /\ pc[c] = "cancelFindToken" /\ pc'[c] # "cancelFindToken"
  /\ tokens[req[c].tokenId].status = status

Refused(c, message) ==
  pc[c] = "cancelCatch" /\ tx[c].err = AppError(message, 400)

RefusesTerminal(c, status, message) ==
  /\ LooksUpToken(c, status)
       => Refused(c, message)' /\ UNCHANGED <<slots, tokens>>
  /\ (Refused(c, message) /\ Finishes(c))
       => /\ out'[c].code = 400 /\ out'[c].msg = message
          /\ UNCHANGED <<slots, tokens>>

\* C12: a cancelToken that finds its token CANCELLED ends with 400 'Token
\* is already cancelled', one that finds it COMPLETED ends with 400
\* 'Cannot cancel a completed token', and neither changes a token's status
\* or a slot's count.
CancelTerminal ==
  [][\A c \in Calls :
       /\ RefusesTerminal(c, "CANCELLED", "Token is already cancelled")
       /\ RefusesTerminal(c, "COMPLETED", "Cannot cancel a completed token")]_vars

\* both refusals have happened: one call found the token CANCELLED, the
\* other found one COMPLETED
CancelTerminalWitness ==
  /\ \E c \in Calls : Done(c) /\ IsCancel(c) /\ out[c].was = "CANCELLED" /\ out[c].code = 400
  /\ \E c \in Calls : Done(c) /\ IsCancel(c) /\ out[c].was = "COMPLETED" /\ out[c].code = 400

Cancellable(status) == status \in TokenStatus \ {"CANCELLED", "COMPLETED"}

\* call c cancelled a cancellable token while its slot's count was zero
\* and no other call wrote what it wrote
CancelsAtZero(c) ==
  /\ Done(c) /\ IsCancel(c) /\ Cancellable(out[c].was)
  /\ out[c].slot \in SlotIds /\ out[c].pre = 0
  /\ out[c].cause # "WriteConflict"

\* C13: a cancelToken of a cancellable token whose slot's count is zero
\* succeeds, the token is CANCELLED and the count stays zero; no slot's
\* count is ever negative.
CancelAtZero ==
  /\ \A s \in SlotIds : slots[s].currentCount >= 0
  /\ \A c \in Calls :
       CancelsAtZero(c)
       => /\ out[c].code = 200 /\ out[c].status = "CANCELLED"
          /\ tokens[out[c].tok].status = "CANCELLED"
          /\ out[c].post = 0

\* a token was cancelled while its slot's count was zero
CancelAtZeroWitness ==
  \E c \in Calls :
    /\ CancelsAtZero(c) /\ out[c].code = 200
    /\ tokens[out[c].tok].status = "CANCELLED" /\ slots[out[c].slot].currentCount = 0

\* the failure a finished call ended with, by the error the handler threw
FailureKind(o) ==
  IF o.msg = "No slot found" THEN "SlotNotFound"
  ELSE IF o.msg = "Slot is full" THEN "SlotFull"
  ELSE IF o.msg = "Token not found" THEN "BookingNotFound"
  ELSE IF o.msg = "Token is already cancelled" THEN "AlreadyCancelled"
  ELSE IF o.msg = "Cannot cancel a completed token" THEN "CannotCancelCompleted"
  ELSE IF o.msg \in {"Failed to book token", "Failed to cancel token"}
    THEN "TransactionFailed"
  ELSE "None"

\* C14: two calls that ended with failures of different kinds ended with
\* different status codes, and only SlotFull has the code 409.
DistinctFailureCodes ==
  \A c, d \in Calls :
    (/\ Done(c) /\ Done(d)
     /\ FailureKind(out[c]) # "None" /\ FailureKind(out[d]) # "None")
    => /\ FailureKind(out[c]) # FailureKind(out[d]) => out[c].code # out[d].code
       /\ out[c].code = 409 => FailureKind(out[c]) = "SlotFull"

\* the seeded slots of a doctor whose hour [h, h + 1) holds the instant
Window(doctorId, instant) ==
  {s \in SlotIds : s[1] = doctorId /\ s[2] <= instant /\ instant < s[2] + 1}

ReachesLookup(c) ==
  IsBook(c) /\ BookInputError(req[c]) = NoError /\ req[c].doctorId \in Doctors

\* C15: a bookToken of a known doctor ends on the slot whose window
\* [startTime, endTime) holds the requested instant; when there is none it
\* ends with 404 'No slot found' and changes no token and no slot.
ResolvesSlot ==
  [][\A c \in Calls :
       (Finishes(c) /\ ReachesLookup(c))
       => IF Window(req[c].doctorId, req[c].slotTime) = {}
            THEN /\ out'[c].code = 404 /\ out'[c].msg = "No slot found"
                 /\ out'[c].slot = NoSlot
                 /\ UNCHANGED <<slots, tokens>>
            ELSE out'[c].slot \in Window(req[c].doctorId, req[c].slotTime)]_vars

\* one booking asked for the instant at which the first slot ends and the
\* second begins, another for the instant at which the last slot ends
ResolvesSlotWitness ==
  \E c, d \in Calls :
    /\ Done(c) /\ IsBook(c) /\ req[c].slotTime = StartHour + 1
    /\ out[c].slot = <<"d1", StartHour + 1>> /\ out[c].code = 201
    /\ Done(d) /\ IsBook(d) /\ req[d].slotTime = StartHour + NHours
    /\ out[d].code = 404

OverCapacityMessage == "Emergency token booked (exceeding normal capacity)"

\* C16: a bookToken that succeeds returns the count of its slot before the
\* call plus one, which is the committed count, the remaining places
\* max(0, maxCapacity - currentCount), and a BOOKED token of the resolved
\* slot; it is tagged as exceeding the capacity exactly when it is an
\* EMERGENCY booking of a slot that was full before the call.
BookResult ==
  [][\A c \in Calls :
       (Finishes(c) /\ IsBook(c) /\ out'[c].code = 201)
       => LET s == out'[c].slot
              o == out'[c]
          IN  /\ s \in Window(req[c].doctorId, req[c].slotTime)
              /\ o.currentCount = slots[s].currentCount + 1
              /\ o.currentCount = slots'[s].currentCount
              /\ o.remainingSlots =
                   (IF slots'[s].maxCapacity - o.currentCount > 0
                      THEN slots'[s].maxCapacity - o.currentCount ELSE 0)
              /\ o.status = "BOOKED"
              /\ tokens[o.tok].status = "NONE"
              /\ tokens'[o.tok].status = "BOOKED" /\ tokens'[o.tok].slotId = s
              /\ (o.msg = OverCapacityMessage)
                   <=> (/\ IsEmergency(req[c].type)
                        /\ slots[s].currentCount >= slots[s].maxCapacity)]_vars

\* an EMERGENCY booking and another booking have succeeded, the second
\* after the first
BookResultWitness ==
  \E c, d \in Calls :
    /\ Succeeded(c) /\ IsBook(c) /\ IsEmergency(req[c].type)
    /\ Succeeded(d) /\ IsBook(d) /\ out[d].currentCount = out[c].currentCount + 1

ClampedRemaining(maxCapacity, currentCount) ==
  IF maxCapacity - currentCount > 0 THEN maxCapacity - currentCount ELSE 0

\* C17: every view of a slot a call has returned gives the remaining
\* places as max(0, maxCapacity - currentCount) and isAvailable as
\* currentCount < maxCapacity: the slots of getDoctorSlots, the object of a
\* Slot document, and the slot of a bookToken result.
ViewsAreClamped ==
  \A c \in Calls :
    Done(c)
    => /\ \A i \in 1 .. Len(out[c].view) :
            LET v == out[c].view[i]
            IN  /\ v.remainingSlots = ClampedRemaining(v.maxCapacity, v.currentCount)
                /\ v.isAvailable = (v.currentCount < v.maxCapacity)
       /\ (IsBook(c) /\ out[c].code = 201)
            => out[c].remainingSlots =
                 ClampedRemaining(slots[out[c].slot].maxCapacity, out[c].currentCount)

\* every call made so far has ended, and call c is the only one of them
\* that came to the slot it came to
AloneOnItsSlot(c) ==
  /\ Done(c) /\ out[c].slot \in SlotIds
  /\ \A d \in Calls \ {c} : pc[d] # "idle" => Done(d) /\ out[d].slot # out[c].slot

RunAlone(c) == SeqRun(db0, req[c], out[c].tok)

\* C18: a call that shared its slot with no other call returned what it
\* returns when run alone on the initial collections, left its slot's
\* count as that run leaves it, and did not lose a write conflict.
DifferentSlotsIndependent ==
  \A c \in Calls :
    AloneOnItsSlot(c)
    => /\ out[c].code = RunAlone(c).out.code /\ out[c].msg = RunAlone(c).out.msg
       /\ out[c].status = RunAlone(c).out.status
       /\ out[c].currentCount = RunAlone(c).out.currentCount
       /\ out[c].remainingSlots = RunAlone(c).out.remainingSlots
       /\ slots[out[c].slot] = RunAlone(c).db.slots[out[c].slot]
       /\ out[c].cause # "WriteConflict"

\* two calls have committed on different slots, one of them a booking on
\* a slot other than the first
DifferentSlotsWitness ==
  \E c, d \in Calls :
    /\ AloneOnItsSlot(c) /\ AloneOnItsSlot(d) /\ c # d
    /\ Succeeded(c) /\ Succeeded(d)
    /\ IsBook(c) /\ out[c].slot # FirstSlot

\* the step commits a booking of call c on slot s
CommitsBooking(c, s) ==
  Finishes(c) /\ IsBook(c) /\ out'[c].code = 201 /\ out'[c].slot = s

\* the step commits a cancellation of call c on slot s
CommitsCancel(c, s) ==
  Finishes(c) /\ IsCancel(c) /\ out'[c].code = 200 /\ out'[c].slot = s

\* C19: a step that raises a slot's count above its capacity commits an
\* EMERGENCY booking on that slot, and a step that lowers a slot's count
\* commits a cancellation on that slot.
OverCapacityOnlyByEmergency ==
  [][\A s \in SlotIds :
       /\ (/\ slots'[s].currentCount > slots[s].currentCount
           /\ slots'[s].currentCount > slots'[s].maxCapacity)
            => \E c \in Calls : CommitsBooking(c, s) /\ IsEmergency(req[c].type)
       /\ slots'[s].currentCount < slots[s].currentCount
            => \E c \in Calls : CommitsCancel(c, s)]_vars

\* no slot is over its capacity
NeverOverCapacity ==
  \A s \in SlotIds : slots[s].currentCount <= slots[s].maxCapacity

Terminal(status) == status \in {"CANCELLED", "COMPLETED"}

\* C20: no step of a bookToken or a cancelToken changes the status of a
\* token that is CANCELLED or COMPLETED.
TerminalStatusIsFinal ==
  [][\A t \in TokenIds :
       Terminal(tokens[t].status) => tokens'[t].status = tokens[t].status]_vars

\* a token was COMPLETED from the start and another is CANCELLED; a
\* cancellation of the first and a cancellation of the second have ended
TerminalStatusWitness ==
  \E c, d \in Calls :
    /\ db0.tokens[1].status = "COMPLETED" /\ tokens[1].status = "COMPLETED"
    /\ Done(c) /\ IsCancel(c) /\ req[c].tokenId = 1 /\ out[c].was = "COMPLETED"
    /\ Done(d) /\ IsCancel(d) /\ out[d].was = "CANCELLED"
    /\ tokens[req[d].tokenId].status = "CANCELLED"

\* C21: no step changes the slotId of an existing token, and a step that
\* commits a cancellation lowers the count of the slot its token
\* references, by one, and of no other slot.
SlotIdIsFixed ==
  [][/\ \A t \in TokenIds :
          tokens[t].status # "NONE" => tokens'[t].slotId = tokens[t].slotId
     /\ \A c \in Calls :
          (Finishes(c) /\ IsCancel(c) /\ out'[c].code = 200)
          => LET s == tokens[req[c].tokenId].slotId
             IN  /\ out'[c].slot = s
                 /\ slots'[s].currentCount =
                      (IF slots[s].currentCount > 0 THEN slots[s].currentCount - 1 ELSE 0)
                 /\ \A u \in SlotIds \ {s} : slots'[u] = slots[u]]_vars

\* a token booked by a call on a slot other than the first was cancelled,
\* and that slot's count went down by one
SlotIdIsFixedWitness ==
  \E b, c \in Calls :
    /\ Succeeded(b) /\ IsBook(b) /\ out[b].slot # FirstSlot
    /\ Succeeded(c) /\ IsCancel(c) /\ req[c].tokenId = out[b].tok
    /\ out[c].slot = out[b].slot /\ out[c].post = out[c].pre - 1
    /\ tokens[out[b].tok].slotId = out[b].slot

NonEmergencyTypes == {"ONLINE", "WALK_IN", "FOLLOW_UP"}

\* call c is a booking of a non-emergency type that came to a slot
NonEmergencyBooking(c) ==
  /\ Done(c) /\ IsBook(c) /\ req[c].type \in NonEmergencyTypes
  /\ out[c].slot \in SlotIds

\* C22: what a non-emergency bookToken returns and does to the count is
\* decided by the slot's state alone, whichever of the three types it has:
\* below the capacity it is admitted and the count goes up by one, at the
\* capacity it ends with 409 'Slot is full' and the count stays.
NonEmergencyTypesAlike ==
  \A c \in Calls :
    NonEmergencyBooking(c)
    => IF out[c].pre < db0.slots[out[c].slot].maxCapacity
         THEN out[c].code = 201 /\ out[c].post = out[c].pre + 1
         ELSE /\ out[c].code = 409 /\ out[c].msg = "Slot is full"
              /\ out[c].post = out[c].pre

\* two bookings of different non-emergency types found the same slot in
\* the same state, full
NonEmergencyTypesWitness ==
  \E c, d \in Calls :
    /\ NonEmergencyBooking(c) /\ NonEmergencyBooking(d)
    /\ req[c].type = "ONLINE" /\ req[d].type = "FOLLOW_UP"
    /\ out[c].slot = out[d].slot /\ out[c].pre = out[d].pre
    /\ out[c].code = 409 /\ out[d].code = 409

\* call c cancelled a BOOKED token of a slot that was exactly full
CancelledAtCapacity(c) ==
  /\ Succeeded(c) /\ IsCancel(c) /\ out[c].was = "BOOKED"
  /\ out[c].slot \in SlotIds
  /\ out[c].pre = db0.slots[out[c].slot].maxCapacity

\* C23: the non-emergency bookToken made right after a cancelToken that
\* committed on a slot exactly at its capacity, on that slot, is admitted.
CancelFreesCapacity ==
  \A c, d \in Calls :
    (/\ d = c + 1 /\ CancelledAtCapacity(c)
     /\ NonEmergencyBooking(d) /\ out[d].slot = out[c].slot)
    => /\ out[d].code = 201
       /\ out[d].pre = out[c].pre - 1
       /\ out[d].post = out[c].pre

CancelFreesCapacityWitness ==
  \E c, d \in Calls :
    /\ d = c + 1 /\ CancelledAtCapacity(c)
    /\ NonEmergencyBooking(d) /\ out[d].slot = out[c].slot
    /\ out[d].code = 201

\* the step in which call c, a getTokensBySlot, returns
ReturnsTokens(c) ==
  Finishes(c) /\ req[c].op = "tokensBySlot" /\ out'[c].code = 200

NoStaleAdmission ==
  [][\A c \in Calls : \A s \in SlotIds :
       CommitsBooking(c, s)
       => /\ SlotDoc(s) \notin tx[c].stale
          /\ tx[c].count = slots[s].currentCount
          /\ out'[c].read = out'[c].pre
          /\ slots'[s].currentCount = out'[c].read + 1]_vars

\* two non-emergency bookings read the same count of the same slot; one
\* committed and the other did not
NoStaleAdmissionWitness ==
  \E c, d \in Calls :
    /\ NonEmergencyBooking(c) /\ NonEmergencyBooking(d) /\ c # d
    /\ out[c].slot = out[d].slot /\ out[c].read = out[d].read
    /\ out[c].code = 201 /\ out[d].cause = "WriteConflict" /\ out[d].code # 201

\* calls c and d are cancellations of the same token, BOOKED at the start
CancelSameToken(c, d) ==
  /\ c # d /\ Done(c) /\ Done(d) /\ IsCancel(c) /\ IsCancel(d)
  /\ req[c].tokenId = req[d].tokenId
  /\ IsValidTokenId(req[c].tokenId)
  /\ db0.tokens[req[c].tokenId].status = "BOOKED"

\* C26: of two cancelToken calls for the same BOOKED token at most one
\* succeeds; the one that succeeds lowers the slot's count by one and
\* leaves the token CANCELLED, the other leaves the count as it is.
ConcurrentCancelOnce ==
  \A c, d \in Calls :
    CancelSameToken(c, d)
    => /\ ~(out[c].code = 200 /\ out[d].code = 200)
       /\ out[c].code = 200
            => /\ tokens[req[c].tokenId].status = "CANCELLED"
               /\ out[c].post = out[c].pre - 1
       /\ out[c].code # 200 => out[c].post = out[c].pre

\* both calls found the token BOOKED; one committed, the other lost the
\* write conflict on the token
ConcurrentCancelWitness ==
  \E c, d \in Calls :
    /\ CancelSameToken(c, d)
    /\ out[c].code = 200 /\ out[d].was = "BOOKED" /\ out[d].cause = "WriteConflict"

\* C27: a cancelToken that finds its token in a status other than BOOKED
\* does not succeed, leaves the token's status as it found it and leaves
\* the slot's count as it is.
OnlyBookedIsCancelled ==
  [][\A c \in Calls :
       (/\ Finishes(c) /\ IsCancel(c)
        /\ out'[c].was \in {"CANCELLED", "COMPLETED", "NO_SHOW"})
       => /\ out'[c].code # 200
          /\ tokens'[req[c].tokenId].status = out'[c].was
          /\ out'[c].post = out'[c].pre]_vars

Orphan(t) == tokens[t].status # "NONE" /\ tokens[t].slotId \notin SlotIds

\* C28: a cancelToken of a token whose slot does not exist ends with 404
\* 'Associated slot not found' unless it lost a write conflict, and no
\* step changes such a token: the status written inside the transaction
\* is never committed.
MissingSlotRollsBack ==
  [][/\ \A t \in TokenIds : Orphan(t) => tokens'[t] = tokens[t]
     /\ \A c \in Calls :
          (/\ Finishes(c) /\ IsCancel(c) /\ IsValidTokenId(req[c].tokenId)
           /\ Orphan(req[c].tokenId) /\ tokens[req[c].tokenId].status = "BOOKED"
           /\ out'[c].cause # "WriteConflict")
          => /\ out'[c].code = 404 /\ out'[c].msg = "Associated slot not found"
             /\ UNCHANGED <<slots, tokens>>]_vars

\* the cancellation ended with 404 after the token had been saved as
\* CANCELLED in its transaction, and the token is BOOKED
MissingSlotWitness ==
  \E c \in Calls :
    /\ Done(c) /\ IsCancel(c) /\ out[c].code = 404
    /\ out[c].msg = "Associated slot not found"
    /\ out[c].was = "BOOKED" /\ tokens[out[c].tok].status = "BOOKED"
    /\ tokens[out[c].tok].slotId = GhostSlot

\* the inputs the claim names: a missing field, an invalid doctor id, a
\* type outside the enum; a missing or malformed token id
BadInput(r) ==
  IF r.op = "book"
    THEN \/ r.doctorId = "" \/ r.slotTime = 0 \/ r.patientName = <<>> \/ r.type = ""
         \/ r.doctorId = "zz"
         \/ r.type \notin {"ONLINE", "WALK_IN", "EMERGENCY", "FOLLOW_UP"}
    ELSE r.op = "cancel" /\ r.tokenId <= 0

IsMade(c) == pc[c] = "idle" /\ pc'[c] # "idle"

\* C29: a bookToken or cancelToken made with such an input ends in the
\* step in which it is made, with a 400 error, without a session or a
\* transaction, and changes no token and no slot.
ValidationFirst ==
  [][\A c \in Calls :
       (IsMade(c) /\ BadInput(req'[c]))
       => /\ pc'[c] = "done" /\ out'[c].code = 400
          /\ tx'[c] = NoTx
          /\ UNCHANGED <<slots, tokens>>]_vars

\* a bookToken and a cancelToken were both rejected for their input
ValidationFirstWitness ==
  \E c, d \in Calls :
    /\ Done(c) /\ IsBook(c) /\ BadInput(req[c]) /\ out[c].code = 400
    /\ Done(d) /\ IsCancel(d) /\ BadInput(req[d]) /\ out[d].code = 400

InRange(slot) == 0 <= slot.currentCount /\ slot.currentCount <= slot.maxCapacity

\* the slot.save of call c is given a count above the capacity, and the
\* storage layer does not fail under it
SavesAboveCapacity(c) ==
  /\ pc[c] = "saveSlot" /\ pc'[c] # "saveSlot"
  /\ tx[c].count + 1 > slots[tx[c].slot].maxCapacity
  /\ tx'[c].err # RawError("MongoError")

SaveRejected(c) ==
  pc[c] = "catch" /\ tx[c].err = RawError("ValidationError")

NonEmergencyBooked(tk, s) ==
  {t \in TokenIds : /\ tk[t].slotId = s /\ tk[t].status = "BOOKED"
                    /\ ~IsEmergency(tk[t].type)}

PostBooked(c) ==
  ViaController(c) /\ Finishes(c) /\ out'[c].code = 201

\* call c, made through POST /api/book with an id of no slot, ends
PostOfNoSlot(c) ==
  ViaController(c) /\ Finishes(c) /\ req[c].slotId \notin SlotIds

\* C32: a booking made through POST /api/book with slot id S creates a
\* token whose slotId is S and increments the currentCount of S, whatever
\* the slots of the doctor are; a slot id of no slot is answered with 400
\* 'Slot not found' and changes nothing.
RecordedAgainstSlot ==
  [][\A c \in Calls :
       /\ PostBooked(c)
            => /\ tokens'[out'[c].tok].slotId = req[c].slotId
               /\ tokens[out'[c].tok].status = "NONE"
               /\ slots'[req[c].slotId].currentCount
                    = slots[req[c].slotId].currentCount + 1
       /\ PostOfNoSlot(c)
            => /\ HttpStatus(out'[c]) = 400
               /\ out'[c].msg = "Slot not found. Please provide a valid slot ID."
               /\ UNCHANGED <<slots, tokens>>]_vars


\* no two slots of one doctor have windows [startTime, endTime) that meet
NonOverlapping(sl) ==
  \A s, u \in SlotIds :
    (s # u /\ sl[s].doctorId = sl[u].doctorId)
      => \/ sl[s].endTime <= sl[u].startTime
         \/ sl[u].endTime <= sl[s].startTime

\* C32, amended: when the slots of the doctor are pairwise non-overlapping,
\* a booking made through POST /api/book with slot id S creates a token
\* whose slotId is S and increments the currentCount of S; a slot id of no
\* slot is answered with 400 'Slot not found' and changes nothing.
RecordedWhenDisjoint ==
  [][\A c \in Calls :
       /\ (PostBooked(c) /\ NonOverlapping(slots))
            => /\ tokens'[out'[c].tok].slotId = req[c].slotId
               /\ tokens[out'[c].tok].status = "NONE"
               /\ slots'[req[c].slotId].currentCount
                    = slots[req[c].slotId].currentCount + 1
       /\ PostOfNoSlot(c)
            => /\ HttpStatus(out'[c]) = 400
               /\ out'[c].msg = "Slot not found. Please provide a valid slot ID."
               /\ UNCHANGED <<slots, tokens>>]_vars

\* the slots do not overlap, a booking through the controller of a slot
\* that is not the doctor's first was recorded against it, and a request
\* with an id of no slot was answered
RecordedAgainstSlotWitness ==
  \E c, d \in Calls :
    /\ NonOverlapping(slots)
    /\ ViaController(c) /\ Succeeded(c) /\ tokens[out[c].tok].slotId = req[c].slotId
    /\ req[c].slotId # FirstSlot
    /\ ViaController(d) /\ Done(d) /\ req[d].slotId = GhostSlot /\ out[d].code = 400

\* TokenService.bookToken of slot s with a valid name and the given type,
\* run alone on the committed collections, books a token
WouldBeAdmitted(s, type) ==
  SeqBook([slots |-> slots, tokens |-> tokens],
          Book(slots[s].doctorId, slots[s].startTime, <<"A", "l">>, type),
          CHOOSE t \in TokenIds : TRUE).out.code = 201

\* call c returns the slots of a doctor
ListsSlots(c) == req[c].op = "slots" /\ Finishes(c) /\ out'[c].code = 200

\* C33: in the slots getDoctorSlots returns, isAvailable is true exactly
\* when a non-emergency bookToken of the slot in the state read would be
\* admitted, status is 'FULL' exactly when isAvailable is false, and
\* availableSlots is the number of the doctor's slots that would admit one.
AvailabilityAgreesWithAdmission ==
  [][\A c \in Calls :
       ListsSlots(c)
       => LET view == out'[c].view
              mine == {s \in SlotIds : slots[s].doctorId = req[c].doctorId}
          IN  /\ {view[i].id : i \in 1 .. Len(view)} = mine
              /\ Len(view) = Cardinality(mine)
              /\ \A i \in 1 .. Len(view) :
                   /\ \A type \in NonEmergencyTypes :
                        view[i].isAvailable <=> WouldBeAdmitted(view[i].id, type)
                   /\ (view[i].status = "FULL") <=> ~view[i].isAvailable
              /\ out'[c].availableSlots =
                   Cardinality({s \in mine : WouldBeAdmitted(s, "WALK_IN")})]_vars

\* getDoctorSlots has listed a full slot and a slot with room, after a
\* booking filled the first
AvailabilityWitness ==
  \E c, d \in Calls :
    /\ Done(c) /\ req[c].op = "slots" /\ out[c].code = 200
    /\ Succeeded(d) /\ IsBook(d)
    /\ \E i, j \in 1 .. Len(out[c].view) :
         /\ out[c].view[i].status = "FULL" /\ out[c].view[i].id = out[d].slot
         /\ out[c].view[i].currentCount = out[d].currentCount
         /\ out[c].view[j].isAvailable
    /\ out[c].availableSlots = out[c].totalSlots - 1

\* the calls that started a transaction
StartedTransaction(c) == pc[c] \in {"findDoctor", "cancelFindToken"}

Occurrences(events, e) == Cardinality({i \in 1 .. Len(events) : events[i] = e})

\* the session was asked to finish its transaction once, by a
\* commitTransaction or an abortTransaction that it carried out, and was
\* ended after that
FinishedOnce(events) ==
  /\ Occurrences(events, "startTransaction") = 1
  /\ Occurrences(events, "commitTransaction") + Occurrences(events, "abortTransaction") = 1
  /\ Occurrences(events, "commitTransaction rejected") = 0
  /\ Occurrences(events, "abortTransaction rejected") = 0
  /\ Len(events) = 3 /\ events[1] = "startTransaction" /\ events[3] = "endSession"

\* C34: every bookToken or cancelToken call that starts a transaction
\* finishes it exactly once, by commit or by abort, and then ends its
\* session; a call that returns success has committed, and a call that
\* throws has committed no write.
TransactionFinishedOnce ==
  [][\A c \in Calls :
       ((InTxn(c) \/ StartedTransaction(c)) /\ Finishes(c))
            => /\ FinishedOnce(out'[c].session)
               /\ out'[c].code \in {200, 201}
                    <=> Occurrences(out'[c].session, "commitTransaction") = 1
               /\ out'[c].code \notin {200, 201} => UNCHANGED <<slots, tokens>>]_vars

\* the fields of a slot that neither handler writes
FixedFields(slot) ==
  [doctorId |-> slot.doctorId, startTime |-> slot.startTime,
   endTime |-> slot.endTime, maxCapacity |-> slot.maxCapacity]

\* slots and slots' differ at most in the currentCount of slot s
OnlyCountOf(s) ==
  /\ \A u \in SlotIds \ {s} : slots'[u] = slots[u]
  /\ \A u \in SlotIds : FixedFields(slots'[u]) = FixedFields(slots[u])

\* tokens' is tokens with one more document, t
OnlyAdds(t) ==
  /\ tokens[t].status = "NONE" /\ tokens'[t].status # "NONE"
  /\ \A u \in TokenIds \ {t} : tokens'[u] = tokens[u]

\* tokens and tokens' differ at most in the status of token t
OnlyStatusOf(t) ==
  /\ \A u \in TokenIds \ {t} : tokens'[u] = tokens[u]
  /\ [tokens'[t] EXCEPT !.status = tokens[t].status] = tokens[t]

SlotsOfDoctor(d) == {i \in 1 .. Len(slots) : slots[i].doctorId = d}

\* the doctors whose slots the seed has inserted
SeededDoctors ==
  IF pc[Seeder] = "seeded" THEN 1 .. Len(SeedDoctors)
  ELSE IF pc[Seeder] = "seedSlots" THEN 1 .. (tx[Seeder].tok - 1)
  ELSE {}

\* C36: the slots the seed creates for one doctor are eight one-hour
\* half-open windows from 09:00 to 17:00, each with maxCapacity 10 and
\* currentCount 0, pairwise non-overlapping and contiguous: every instant
\* in [09:00, 17:00) is in exactly one slot of the doctor, every other
\* instant in none, and a lookup returns that slot.
SeededSlotsPartitionTheDay ==
  /\ \A d \in SeededDoctors :
       /\ Cardinality(SlotsOfDoctor(d)) = 8
       /\ \A i \in SlotsOfDoctor(d) :
            /\ slots[i].startTime[2] = 0 /\ slots[i].endTime[2] = 0
            /\ slots[i].endTime[1] = slots[i].startTime[1] + 1
            /\ slots[i].maxCapacity = 10 /\ slots[i].currentCount = 0
       /\ \A i, j \in SlotsOfDoctor(d) :
            i # j => \/ AtOrBefore(slots[i].endTime, slots[j].startTime)
                     \/ AtOrBefore(slots[j].endTime, slots[i].startTime)
       /\ \A instant \in Instants :
            Cardinality(SeededSlotsAt(d, instant)) =
              IF AtOrBefore(<<9, 0>>, instant) /\ Before(instant, <<17, 0>>) THEN 1 ELSE 0
  /\ req[Seeder].op = "lookup"
       => Cardinality(out[Seeder].view) =
            IF /\ AtOrBefore(<<9, 0>>, req[Seeder].slotTime)
               /\ Before(req[Seeder].slotTime, <<17, 0>>) THEN 1 ELSE 0

\* the seed has replaced overlapping slots of an earlier day, and the
\* last instant of the day's last slot has been looked up and found in it
SeededSlotsWitness ==
  /\ pc[Seeder] = "seeded" /\ Len(db0.slots) > 0
  /\ Len(slots) = 8 * Len(SeedDoctors)
  /\ req[Seeder].op = "lookup" /\ req[Seeder].slotTime = <<16, 59>>
  /\ \E i \in out[Seeder].view : slots[i].endTime = <<17, 0>>

====
